---- MODULE Spec2Model ----
(***************************************************************************)
(* Credential / session core of the auth service: the routes of            *)
(* src/routes/api.py over the user table (UsersDAO), the Redis token store *)
(* (TokensDAO), the bcrypt helpers and the JWT codec.                      *)
(*                                                                         *)
(* At most NumProcs requests are in flight at a time.  A handler is split  *)
(* at its accesses to shared state (user table, token store, clock); the   *)
(* local computation between two accesses belongs to the earlier step.     *)
(* Time is counted in whole seconds, the resolution of the JWT "exp".      *)
(*                                                                         *)
(* Spec is the routes; HangSpec adds a store that stops answering;         *)
(* CryptoSpec calls crypto/utils.py directly, ScopeSpec enters and leaves  *)
(* the scopes of the two DAOs, DtoSpec passes request bodies through       *)
(* AuthRequestDTO.                                                         *)
(***************************************************************************)
EXTENDS Integers, FiniteSets, Sequences, Bags, TLC

\* ---------------------------------------------------------------- bounds
NumProcs == 2
MaxReqs == 3
MaxTicks == 1

Logins == {"alice", "bob"}
\* Passwords are the byte strings password.encode('utf-8') hands to bcrypt.
Secret123 == <<83, 101, 99, 114, 101, 116, 49, 50, 51>>
Wrong4567 == <<87, 114, 111, 110, 103, 52, 53, 54, 55>>

Passwords == {Secret123, Wrong4567}
NewPasswords == {Secret123}
Salts == {1}

\* ------------------------------------------------------ program constants
JWT_EXP_HOURS == 24
expires_in_hours == 24
SECONDS_PER_HOUR == 3600

JwtTtl == JWT_EXP_HOURS * SECONDS_PER_HOUR
StoreTtl == expires_in_hours * SECONDS_PER_HOUR

VARIABLES
    users,       \* committed rows of the users table (the columns the
                 \* handlers read or write after the INSERT: id, login,
                 \* password_hash, last_login)
    nextId,      \* the id the next INSERT into users gives its row
    store,       \* Redis: token string -> record, for the keys "token:<t>"
    now,         \* wall clock, seconds
    req,         \* bag of the requests in flight, each with its locals
    out,         \* the request answered last, with its locals and its answer
    reqs,        \* number of requests received so far
    handed,      \* history: token -> number of 200 logins that returned it
    loggedOut,   \* history: tokens whose logout answered 200
    bulkRevoked, \* history: tokens deleted by revoke_user_tokens
    silent,      \* the Redis server has stopped answering
    crypto,      \* a direct caller of crypto/utils.py: its inputs and results
    scope,       \* a caller of the DAO scopes: the scope it is in, and the
                 \* scopes it has left
    dto          \* a request body on its way through AuthRequestDTO

vars == <<users, nextId, store, now, req, out, reqs, handed, loggedOut,
          bulkRevoked, silent, crypto, scope, dto>>

\* ------------------------------------------------------------ null values
NoPassword == << >>
NoHash == [salt |-> 0, pw |-> NoPassword]
\* last_login is the empty set for NULL, else the set of the time written.
NoUser == [id |-> 0, login |-> "", password_hash |-> NoHash, last_login |-> {}]
NoToken == [sub |-> "", user_id |-> 0, exp |-> 0, sig |-> "none"]

\* A profile that keeps every column of the row.
profile_with_hash(user) == user

\* user.pop("password_hash", None): the row read without that column.
profile(user) == [f \in (DOMAIN user) \ {"password_hash"} |-> user[f]]

NoProfile == profile(NoUser)
NoResp == [status |-> 0, kind |-> "none", msg |-> "", token |-> NoToken,
           id |-> 0, login |-> "", profile |-> NoProfile]

\* No call of crypto/utils.py made from outside the routes.
NoCall ==
    [op |-> "none", p1 |-> NoPassword, p2 |-> NoPassword, hashes |-> << >>,
     plain |-> NoPassword, hashed |-> NoHash, origin |-> NoPassword,
     result |-> FALSE, raised |-> FALSE, answer |-> NoResp]

\* No scope of a DAO entered.
NoScope ==
    [dao |-> "none", pc |-> "out", conn |-> "none", cur |-> "none",
     tx |-> "none", statements |-> 0, raised |-> FALSE, exit_raised |-> FALSE]

NoScopes == [at |-> NoScope, left |-> << >>]

\* No request body received.
NoRequest ==
    [op |-> "none", pc |-> "none", login |-> << >>, password |-> << >>,
     login_error |-> "", password_error |-> "", status |-> 0,
     dispatched |-> FALSE]

\* ------------------------------------------------------- crypto/utils.py
\* bcrypt reads no more than the first 72 bytes of a password.
BCRYPT_MAX_BYTES == 72

key_material(password) ==
    IF Len(password) <= BCRYPT_MAX_BYTES THEN password
    ELSE SubSeq(password, 1, BCRYPT_MAX_BYTES)

\* bcrypt.hashpw: the digest is determined by (salt, password) and embeds
\* the salt.
hashpw(password, salt) == [salt |-> salt, pw |-> key_material(password)]

\* A value bcrypt can parse as "$2b$<cost>$<salt><digest>"; salt 0 stands
\* for a value without that header.
well_formed(hashed) == hashed.salt # 0

\* A salt source that returns the same salt at every call.
gensalt_fixed(used) == {1}

\* bcrypt.gensalt(): 128 random bits, taken never to repeat.
gensalt(used) == (1..(Cardinality(used) + 1)) \ used

\* An encrypt_password that returns its input as the stored value.
encrypt_password_plain(password, salt) == [salt |-> 0, pw |-> password]

encrypt_password(password, salt) == hashpw(password, salt)

\* bcrypt.checkpw raises ValueError("Invalid salt") on a stored value it
\* cannot parse; verify_password lets it through.
checkpw_raises(hashed_password) == ~well_formed(hashed_password)

\* What verify_password returns when checkpw returns.
verify_password(plain_password, hashed_password) ==
    /\ well_formed(hashed_password)
    /\ hashpw(plain_password, hashed_password.salt) = hashed_password

\* ------------------------------------------------------------ JWT (HS256)
\* jwt.encode is a deterministic function of the payload and the key: two
\* equal payloads give the same token string.
jwt_encode(sub, user_id, exp) ==
    [sub |-> sub, user_id |-> user_id, exp |-> exp, sig |-> "server"]

\* A decode that verifies the signature only (verify_exp off).
jwt_decode_ignoring_exp(token, t) ==
    IF token.sig # "server" THEN "invalid" ELSE "ok"

\* jwt.decode(token, SECRET_KEY, algorithms=["HS256"]): "invalid" for a
\* bad signature or a malformed token (PyJWTError), "expired" once
\* exp <= now (ExpiredSignatureError), "ok" otherwise.
jwt_decode(token, t) ==
    IF token.sig # "server" THEN "invalid"
    ELSE IF token.exp <= t THEN "expired"
    ELSE "ok"

\* Tokens a client can present without having obtained them from login:
\* a forged signature, and payloads signed with the key that lack the
\* user id (user_id 0) or the login (sub ""), as the tests build them.
ForeignTokens ==
    { [sub |-> "alice", user_id |-> 1, exp |-> JwtTtl * (MaxTicks + 2), sig |-> "forged"],
      [sub |-> "alice", user_id |-> 0, exp |-> JwtTtl * (MaxTicks + 2), sig |-> "server"],
      [sub |-> "", user_id |-> 1, exp |-> JwtTtl * (MaxTicks + 2), sig |-> "server"] }

\* ------------------------------------------------------ responses (api.py)
Resp(status, kind, msg) ==
    [status |-> status, kind |-> kind, msg |-> msg, token |-> NoToken,
     id |-> 0, login |-> "", profile |-> NoProfile]

InvalidCredentials == Resp(401, "message", "Invalid credentials")

\* ------------------------------------------------------------- UsersDAO
\* The id an INSERT gives a row.  "id" is the INTEGER PRIMARY KEY of the
\* table and is not AUTOINCREMENT: the row gets the largest id in the
\* table plus one, so the id of a deleted last row is given out again.
next_rowid(tbl) ==
    IF tbl = {} THEN 1
    ELSE (CHOOSE i \in { u.id : u \in tbl } : \A u \in tbl : u.id <= i) + 1

get_user_by_login(login) ==
    IF \E u \in users : u.login = login
    THEN CHOOSE u \in users : u.login = login
    ELSE NoUser

get_user_by_id(user_id) ==
    IF \E u \in users : u.id = user_id
    THEN CHOOSE u \in users : u.id = user_id
    ELSE NoUser

\* What a handler keeps of the row it read: id, login and password_hash.
\* last_login, which no handler reads, is left as in NoUser.
Read(user) == [user EXCEPT !.last_login = NoUser.last_login]

InFlight == BagToSet(req)

\* The requests in flight besides r.
Others(r) == BagToSet(req (-) SetToBag({r}))

\* A transaction that has written a row holds it until commit: a login
\* holds the row of its user between its UPDATE and its commit.
HoldsRow(q, id) ==
    /\ q.op = "login"
    /\ q.pc = "login_store"
    /\ q.user.id = id

RowFree(r, id) == \A q \in Others(r) : ~HoldsRow(q, id)

\* ------------------------------------------------------------ TokensDAO
\* A record with created_at and expires_at the wrong way round.
TokenRecord_swapped(user_id, t1, t2, t3) ==
    [user_id |-> user_id, expires_at |-> t2, created_at |-> t1 + StoreTtl,
     evict_at |-> t3 + StoreTtl]

\* The record store_token writes and the TTL of its key: expires_at from
\* the clock read at t1, created_at from the one at t2, and the TTL counted
\* by the server from the SETEX at t3.
TokenRecord(user_id, t1, t2, t3) ==
    [user_id |-> user_id, expires_at |-> t1 + StoreTtl, created_at |-> t2,
     evict_at |-> t3 + StoreTtl]

Without(s, k) == [x \in (DOMAIN s) \ {k} |-> s[x]]

\* The value of a key: what store_token serialised, without the TTL that
\* Redis keeps beside it.
Value(entry) ==
    [user_id |-> entry.user_id, expires_at |-> entry.expires_at,
     created_at |-> entry.created_at]

\* get_token, backend reachable: the record, or none.
get_token(token) == IF token \in DOMAIN store THEN {Value(store[token])} ELSE {}

\* A validity check that looks at the expiry only and lets a missing
\* record pass.
is_token_valid_absent_ok(token, ok) ==
    /\ ok
    /\ \A r \in get_token(token) : now < r.expires_at

\* A validity check that lets a token pass when the backend raises.
is_token_valid_fail_open(token, ok) ==
    \/ ~ok
    \/ /\ get_token(token) # {}
       /\ \A r \in get_token(token) : now < r.expires_at

\* A validity check that asks for the record only.
is_token_valid_ignoring_expiry(token, ok) ==
    /\ ok
    /\ get_token(token) # {}

\* is_token_valid: a record exists and now < expires_at; False when the
\* backend raises (ok = the backend answered).
is_token_valid(token, ok) ==
    /\ ok
    /\ get_token(token) # {}
    /\ \A r \in get_token(token) : now < r.expires_at

\* get_user_tokens, backend reachable.
get_user_tokens(user_id) ==
    { t \in DOMAIN store : store[t].user_id = user_id }

\* The list get_user_tokens returns: an entry with "token", "expires_at"
\* and "created_at" for every key read with the user's id, [] from the
\* except clause.
user_token_entries(user_id, ok) ==
    IF ok
    THEN { [token |-> t, expires_at |-> store[t].expires_at,
            created_at |-> store[t].created_at] : t \in get_user_tokens(user_id) }
    ELSE {}

\* ------------------------------------------------------------------ Init
\* The user table outlives the process: at start it is empty or holds an
\* account registered earlier.  The token store starts empty.
Idle ==
    [pc |-> "idle", op |-> "none", login |-> "", password |-> NoPassword,
     token |-> NoToken, user |-> NoUser, keys |-> {}, key |-> NoToken,
     count |-> 0, stored |-> FALSE, lookup |-> FALSE, decoded_at |-> 0,
     minted_at |-> 0,
     raced |-> FALSE, late |-> {}, revoked_for |-> 0, success |-> FALSE,
     store_ok |-> TRUE, removed |-> 0, entries |-> {}, deleted |-> FALSE,
     resp |-> NoResp]

\* The row create_new_user inserts: last_login is left NULL.
UserRow(id, login, password, salt) ==
    [id |-> id, login |-> login, password_hash |-> encrypt_password(password, salt),
     last_login |-> {}]

InitialTables ==
    { {}, {UserRow(1, "alice", Secret123, 1)} }

Init ==
    /\ users \in InitialTables
    /\ nextId = next_rowid(users)
    /\ store = << >>
    /\ now = 0
    /\ req = EmptyBag
    /\ out = Idle
    /\ reqs = 0
    /\ handed = << >>
    /\ loggedOut = {}
    /\ bulkRevoked = {}
    /\ silent = FALSE
    /\ crypto = NoCall
    /\ scope = NoScopes
    /\ dto = NoRequest

\* A request is taken while a worker is free.
CanStart ==
    /\ BagCardinality(req) < NumProcs
    /\ reqs < MaxReqs

New(op, login, password, token) ==
    [Idle EXCEPT !.op = op, !.login = login, !.password = password,
                 !.token = token]

Done(r, resp) == [r EXCEPT !.pc = "done", !.resp = resp]

\* The bag b with the request n added, unless n is answered.
Put(b, n) == IF n.pc = "done" THEN b ELSE b (+) SetToBag({n})

\* A request arrives and makes its first step, to n.
Start(n) ==
    /\ CanStart
    /\ reqs' = reqs + 1
    /\ req' = Put(req, n)
    /\ out' = IF n.pc = "done" THEN n ELSE Idle

\* The request r in flight moves on to n.
Step(r, n) ==
    /\ req' = Put(req (-) SetToBag({r}), n)
    /\ out' = IF n.pc = "done" THEN n ELSE Idle

\* The tokens clients hold.
Presentable == (DOMAIN handed) \cup ForeignTokens

\* ------------------------------------------------------------- the clock
Ticks(t) == (t % JwtTtl) + (t \div JwtTtl)

\* Time advances by a second or by a whole token lifetime; Redis drops the
\* keys whose TTL has run out.
Tick(d) ==
    /\ Ticks(now + d) <= MaxTicks
    /\ now' = now + d
    /\ store' = [t \in { k \in DOMAIN store : store[k].evict_at > now + d } |-> store[t]]
    /\ out' = Idle
    /\ UNCHANGED <<users, nextId, req, reqs, handed, loggedOut, bulkRevoked,
                 silent, crypto, scope, dto>>

\* --------------------------------------------------- POST /api/register
\* encrypt_password, INSERT, commit, 201 {"id": user_id}.  The row of an
\* open transaction is invisible to the others and a second INSERT of the
\* login waits for it, so INSERT and commit are one step.  A login already
\* in the table violates the unique index: the exception leaves the scope
\* (rollback) and the request is answered 500.
\* A table without the unique index on login.
login_taken_never(login) == FALSE

\* The unique index on users.login rejects the INSERT.
login_taken(login) == \E u \in users : u.login = login

register_account(login, password, salt) ==
    /\ IF login_taken(login)
       THEN /\ Start(Done(New("register", login, password, NoToken),
                          Resp(500, "error", "Internal Server Error")))
            /\ UNCHANGED <<users, nextId>>
       ELSE /\ users' = users \cup {UserRow(nextId, login, password, salt)}
            /\ nextId' = nextId + 1
            /\ Start(Done([New("register", login, password, NoToken) EXCEPT
                             !.user = UserRow(nextId, login, password, salt)],
                          [Resp(201, "id", "") EXCEPT !.id = nextId]))
    /\ UNCHANGED <<store, now, handed, loggedOut, bulkRevoked,
                 silent, crypto, scope, dto>>

\* ------------------------------------------------------ POST /api/login
\* A credential check that tells an unknown login from a wrong password.
credentials_response_distinguishing(user, password) ==
    IF user = NoUser THEN Resp(404, "message", "User not found")
    ELSE IF ~verify_password(password, user.password_hash) THEN InvalidCredentials
    ELSE NoResp

\* A credential check that lets every password of a known login pass.
credentials_response_accepting(user, password) ==
    IF user = NoUser THEN InvalidCredentials ELSE NoResp

\* The answer of the credential check of login_account and
\* delete_account; NoResp when the check passes.
credentials_response(user, password) ==
    IF user = NoUser THEN InvalidCredentials
    ELSE IF checkpw_raises(user.password_hash)
    THEN Resp(500, "error", "Internal Server Error")
    ELSE IF ~verify_password(password, user.password_hash)
    THEN InvalidCredentials
    ELSE NoResp

\* get_user_by_login and the credential check.
login_lookup(login, password) ==
    /\ LET user == get_user_by_login(login)
           n == [New("login", login, password, NoToken) EXCEPT !.user = Read(user)]
           answer == credentials_response(user, password)
       IN  Start(IF answer # NoResp THEN Done(n, answer)
                 ELSE [n EXCEPT !.pc = "login_update"])
    /\ UNCHANGED <<users, nextId, store, now, handed, loggedOut, bulkRevoked,
                 silent, crypto, scope, dto>>

\* UPDATE users SET last_login = t WHERE id = id, as the table shows it
\* once the transaction is committed.
update_user(id, t) ==
    { IF u.id = id THEN [u EXCEPT !.last_login = {t}] ELSE u : u \in users }

\* update_user(last_login): the UPDATE takes the row until the scope
\* commits; then the token is minted with exp = now + 24 h.  No network
\* round trip lies between the clock reads of lines 67 and 73 and those
\* of store_token: they are one reading, minted_at.
login_update(r) ==
    /\ r.pc = "login_update"
    /\ RowFree(r, r.user.id)
    /\ Step(r, [r EXCEPT
                  !.pc = "login_store",
                  !.minted_at = now,
                  !.token = jwt_encode(r.user.login, r.user.id, now + JwtTtl)])
    /\ UNCHANGED <<users, nextId, store, now, reqs, handed, loggedOut, bulkRevoked,
                 silent, crypto, scope, dto>>

\* A store_token whose write lands although the call reports failure.
store_token_despite_error(user_id, token, t, ok) ==
    (token :> TokenRecord(user_id, t, t, now)) @@ store

\* A store_token that files the record under another user's id.
store_token_other_owner(user_id, token, t, ok) ==
    IF ok THEN (token :> TokenRecord(user_id + 1, t, t, now)) @@ store ELSE store

\* TokensDAO.store_token, having read the clock at t: SETEX token:<t>;
\* False when the backend raises.
store_token(user_id, token, t, ok) ==
    IF ok THEN (token :> TokenRecord(user_id, t, t, now)) @@ store ELSE store

\* The request q is in revoke_user_tokens(id), or back from it and not yet
\* answered.
InRevocation(q, id) ==
    /\ q.pc \in {"revoke_get", "revoke_del", "delete_user"}
    /\ q.user.id = id

\* The bag b with raced set in every revocation for id, and the token
\* written behind its scan noted in late.
MarkRaced(b, id, token) ==
    LET mark(q) == IF InRevocation(q, id)
                   THEN [q EXCEPT !.raced = TRUE, !.late = @ \cup {token}]
                   ELSE q
        copies(n) == { <<q, i>> \in UNION { {q} \X (1..b[q]) : q \in BagToSet(b) } :
                         mark(q) = n }
    IN  [n \in { mark(q) : q \in BagToSet(b) } |-> Cardinality(copies(n))]

\* store_token, whose result is dropped; the scope commits (releasing the
\* row and showing the last_login written at minted_at) and the token is
\* returned.
login_store(r) ==
    /\ r.pc = "login_store"
    /\ ~silent
    /\ \E ok \in BOOLEAN :
         /\ store' = store_token(r.user.id, r.token, r.minted_at, ok)
         /\ req' = IF ok THEN MarkRaced(req (-) SetToBag({r}), r.user.id, r.token)
                   ELSE req (-) SetToBag({r})
         /\ out' = Done([r EXCEPT !.stored = ok],
                        [Resp(200, "token", "bearer") EXCEPT !.token = r.token])
    /\ handed' = IF r.token \in DOMAIN handed
                 THEN [handed EXCEPT ![r.token] = @ + 1]
                 ELSE (r.token :> 1) @@ handed
    /\ users' = update_user(r.user.id, r.minted_at)
    /\ UNCHANGED <<nextId, now, reqs, loggedOut, bulkRevoked,
                 silent, crypto, scope, dto>>

\* ----------------------------------------------------- POST /api/logout
\* A delete_token that reports a removal whenever DEL went through.
delete_token_blind(token, ok) == ok

\* TokensDAO.delete_token: whether a key was removed; False on an error.
delete_token(token, ok) == ok /\ token \in DOMAIN store

\* A logout that answers 200 whatever delete_token returned.
logout_response_lenient(success) ==
    Resp(200, "message", "Successfully logged out")

\* The answer of logout_account to the result of delete_token.
logout_response(success) ==
    IF success
    THEN Resp(200, "message", "Successfully logged out")
    ELSE Resp(400, "detail", "Failed to logout token")

logout_account(token) ==
    /\ ~silent
    /\ \E ok \in BOOLEAN :
         LET existed == ok /\ token \in DOMAIN store
             success == delete_token(token, ok)
         IN
         /\ store' = IF existed THEN Without(store, token) ELSE store
         /\ loggedOut' = IF existed THEN loggedOut \cup {token} ELSE loggedOut
         /\ Start(Done([New("logout", "", NoPassword, token) EXCEPT
                          !.success = success, !.store_ok = ok],
                       logout_response(success)))
    /\ UNCHANGED <<users, nextId, now, handed, bulkRevoked,
                 silent, crypto, scope, dto>>

\* ------------------------------------------- TokensDAO.get_user_tokens
\* A direct call of the DAO method (no route uses it).  KEYS and the GETs
\* are sent back to back and are taken as one step.
list_user_tokens(user_id) ==
    /\ ~silent
    /\ \E ok \in BOOLEAN :
         Start(Done([New("tokens", "", NoPassword, NoToken) EXCEPT
                       !.user = [NoUser EXCEPT !.id = user_id],
                       !.store_ok = ok,
                       !.entries = user_token_entries(user_id, ok)],
                    Resp(0, "list", "")))
    /\ UNCHANGED <<users, nextId, store, now, handed, loggedOut, bulkRevoked,
                   silent, crypto, scope, dto>>

\* ------------------------------------------------------ get_current_user
\* The checks get_current_user makes before it turns to the store:
\* jwt.decode, then "not user_id or not login" on the payload.
local_check(token, t) ==
    IF jwt_decode(token, t) # "ok" THEN jwt_decode(token, t)
    ELSE IF token.user_id = 0 \/ token.sub = "" THEN "payload"
    ELSE "ok"

\* get_current_user returns an identity for the token in this state, the
\* backend answering.
Validates(token) ==
    /\ local_check(token, now) = "ok"
    /\ is_token_valid(token, TRUE)

auth_decode(token) ==
    /\ LET n == [New("auth", "", NoPassword, token) EXCEPT !.decoded_at = now]
           d == local_check(token, now)
       IN  Start(
              IF d = "invalid" THEN Done(n, Resp(401, "detail", "Invalid token"))
              ELSE IF d = "expired" THEN Done(n, Resp(401, "detail", "Token has expired"))
              ELSE IF d = "payload" THEN Done(n, Resp(401, "detail", "Invalid token payload"))
              ELSE [n EXCEPT !.pc = "auth_store"])
    /\ UNCHANGED <<users, nextId, store, now, handed, loggedOut, bulkRevoked,
                 silent, crypto, scope, dto>>

\* TokensDAO.is_token_valid, then the identity of the payload, which goes
\* to the caller of get_current_user or, when the request is a
\* GET /api/profile, to get_profile.
auth_store(r) ==
    /\ r.pc = "auth_store"
    /\ ~silent
    /\ \E ok \in BOOLEAN, route \in {"auth", "profile"} :
         LET n == [r EXCEPT !.lookup = TRUE, !.store_ok = ok] IN
         /\ ~is_token_valid(r.token, ok) => route = "auth"
         /\ Step(r, IF ~is_token_valid(r.token, ok)
                    THEN Done(n, Resp(401, "detail", "Token not found or expired"))
                    ELSE IF route = "profile"
                    THEN [n EXCEPT !.op = "profile", !.pc = "profile_lookup"]
                    ELSE Done(n, [Resp(200, "identity", "") EXCEPT
                                    !.id = r.token.user_id, !.login = r.token.sub]))
    /\ UNCHANGED <<users, nextId, store, now, reqs, handed, loggedOut, bulkRevoked,
                 silent, crypto, scope, dto>>

\* ----------------------------------------------------- GET /api/profile
\* A profile lookup that answers a missing row like a bad token.
profile_response_unauthorized(user) ==
    IF user = NoUser THEN Resp(401, "detail", "Token not found or expired")
    ELSE [Resp(200, "profile", "") EXCEPT !.profile = profile(user)]

\* The answer of get_profile to the row get_user_by_id returned.
profile_response(user) ==
    IF user = NoUser THEN Resp(404, "detail", "User not found")
    ELSE [Resp(200, "profile", "") EXCEPT !.profile = profile(user)]

\* get_user_by_id(current_user["user_id"]), then the row without its
\* password_hash, or 404.
get_profile(r) ==
    /\ r.pc = "profile_lookup"
    /\ LET user == get_user_by_id(r.token.user_id)
       IN  Step(r, Done([r EXCEPT !.user = user], profile_response(user)))
    /\ UNCHANGED <<users, nextId, store, now, reqs, handed, loggedOut, bulkRevoked,
                 silent, crypto, scope, dto>>

\* ----------------------------------------------------- POST /api/delete
\* A delete_account that goes from the credential check to delete_user.
delete_without_revocation(n) == [n EXCEPT !.pc = "delete_user"]

\* delete_account after the credential check: revoke_user_tokens is next.
after_credentials(n) == [n EXCEPT !.pc = "revoke_keys"]

delete_lookup(login, password) ==
    /\ LET user == get_user_by_login(login)
           n == [New("delete", login, password, NoToken) EXCEPT !.user = Read(user)]
           answer == credentials_response(user, password)
       IN  Start(IF answer # NoResp THEN Done(n, answer)
                 ELSE after_credentials(n))
    /\ UNCHANGED <<users, nextId, store, now, handed, loggedOut, bulkRevoked,
                 silent, crypto, scope, dto>>

\* revoke_user_tokens returns to delete_account: the count, or 0 from the
\* except clause.
Revoked(r, count) ==
    [r EXCEPT !.pc = "delete_user", !.keys = {}, !.key = NoToken, !.count = count]

NextKey(r, keys) ==
    IF keys = {} THEN Revoked(r, r.count)
    ELSE [r EXCEPT !.pc = "revoke_get", !.keys = keys, !.key = NoToken]

\* revoke_user_tokens: KEYS token:*
revoke_keys(r) ==
    /\ r.pc = "revoke_keys"
    /\ ~silent
    /\ \E ok \in BOOLEAN :
         LET c == [r EXCEPT !.revoked_for = r.user.id] IN
         Step(r, IF ok THEN NextKey(c, DOMAIN store) ELSE Revoked(c, 0))
    /\ UNCHANGED <<users, nextId, store, now, reqs, handed, loggedOut, bulkRevoked,
                 silent, crypto, scope, dto>>

\* A deletion test that takes every record read.
belongs_to_anyone(k, user_id) == k \in DOMAIN store

\* data.get("user_id") == user_id, on the record read under key k.
belongs(k, user_id) == k \in DOMAIN store /\ store[k].user_id = user_id

\* revoke_user_tokens: GET of the next key of the scan.
revoke_get(r) ==
    /\ r.pc = "revoke_get"
    /\ ~silent
    /\ \E k \in r.keys, ok \in BOOLEAN :
         Step(r, IF ~ok THEN Revoked(r, 0)
                 ELSE IF belongs(k, r.user.id)
                      THEN [r EXCEPT !.pc = "revoke_del", !.key = k]
                 ELSE NextKey(r, r.keys \ {k}))
    /\ UNCHANGED <<users, nextId, store, now, reqs, handed, loggedOut, bulkRevoked,
                 silent, crypto, scope, dto>>

\* revoke_user_tokens: DEL of a key of the user, counted whether or not
\* the key was still there.
revoke_del(r) ==
    /\ r.pc = "revoke_del"
    /\ ~silent
    /\ \E ok \in BOOLEAN :
         IF ok
         THEN /\ store' = Without(store, r.key)
              /\ bulkRevoked' = IF r.key \in DOMAIN store
                                THEN bulkRevoked \cup {r.key}
                                ELSE bulkRevoked
              /\ Step(r, NextKey([r EXCEPT
                                    !.count = @ + 1,
                                    !.removed = IF r.key \in DOMAIN store
                                                THEN @ + 1 ELSE @],
                                 r.keys \ {r.key}))
         ELSE /\ Step(r, Revoked(r, 0))
              /\ UNCHANGED <<store, bulkRevoked>>
    /\ UNCHANGED <<users, nextId, now, reqs, handed, loggedOut,
                 silent, crypto, scope, dto>>

\* A DELETE whose effect stays in the table although the call raised.
delete_row_despite_error(id, ok) == { u \in users : u.id # id }

\* The table once the scope of delete_account is left: without the row
\* when DELETE and commit went through (ok), as it was when one of them
\* raised and the transaction was rolled back.
delete_row(id, ok) == IF ok THEN { u \in users : u.id # id } ELSE users

\* delete_user, commit, 200; an exception of delete_user leaves the scope
\* (rollback) and the request is answered 500.
delete_user(r) ==
    /\ r.pc = "delete_user"
    /\ RowFree(r, r.user.id)
    /\ \E ok \in BOOLEAN :
         /\ users' = delete_row(r.user.id, ok)
         /\ Step(r, Done([r EXCEPT !.deleted = ok],
                         IF ok THEN Resp(200, "message", "User deleted successfully")
                         ELSE Resp(500, "error", "Internal Server Error")))
    /\ nextId' = next_rowid(users')
    /\ UNCHANGED <<store, now, reqs, handed, loggedOut, bulkRevoked,
                 silent, crypto, scope, dto>>

\* ------------------------------------------------------------------ Next
Next ==
    \/ \E d \in {1, JwtTtl} : Tick(d)
    \/ \E l \in Logins, pw \in NewPasswords, s \in Salts : register_account(l, pw, s)
    \/ \E l \in Logins, pw \in Passwords : login_lookup(l, pw)
    \/ \E r \in InFlight : login_update(r)
    \/ \E r \in InFlight : login_store(r)
    \/ \E t \in Presentable : logout_account(t)
    \/ \E u \in users : list_user_tokens(u.id)
    \/ \E t \in Presentable : auth_decode(t)
    \/ \E r \in InFlight : auth_store(r)
    \/ \E r \in InFlight : get_profile(r)
    \/ \E l \in Logins, pw \in Passwords : delete_lookup(l, pw)
    \/ \E r \in InFlight : revoke_keys(r)
    \/ \E r \in InFlight : revoke_get(r)
    \/ \E r \in InFlight : revoke_del(r)
    \/ \E r \in InFlight : delete_user(r)

Spec == Init /\ [][Next]_vars

\* ------------------------------------------------- an unanswering store
\* get_redis_connection builds redis.Redis(host, port, db,
\* decode_responses) with no socket_timeout: a command sent to a server
\* that has stopped answering waits for the reply without limit.
Hang ==
    /\ ~silent
    /\ silent' = TRUE
    /\ out' = Idle
    /\ UNCHANGED <<users, nextId, store, now, req, reqs, handed, loggedOut,
                   bulkRevoked, crypto, scope, dto>>

\* The threads of the worker pool run on: a handler that can take its
\* next step takes it.
Progress ==
    \E r \in InFlight :
       \/ login_update(r)
       \/ login_store(r)
       \/ auth_store(r)
       \/ get_profile(r)
       \/ revoke_keys(r)
       \/ revoke_get(r)
       \/ revoke_del(r)
       \/ delete_user(r)

HangSpec == Init /\ [][Next \/ Hang]_vars /\ WF_vars(Progress)

\* ------------------------------------- crypto/utils.py, called directly
MaxHashes == 2

\* A password of BCRYPT_MAX_BYTES + 1 bytes ending in b.
Long(b) == [i \in 1..BCRYPT_MAX_BYTES |-> 97] \o <<b>>

CryptoPasswords == {NoPassword, Secret123, Wrong4567, Long(98), Long(99)}

\* Stored values that are no bcrypt hash: the empty string, and the
\* password itself.
MalformedHashes(p) == {NoHash, [salt |-> 0, pw |-> p]}

\* The stored values a caller can hand to verify_password for p: the
\* hashes made so far, with the password each was made from, and the
\* malformed ones.
Candidates(p) ==
    { crypto.hashes[i] : i \in DOMAIN crypto.hashes }
      \cup { [password |-> p, hash |-> m] : m \in MalformedHashes(p) }

CryptoInit ==
    /\ users = {}
    /\ nextId = 1
    /\ store = << >>
    /\ now = 0
    /\ req = EmptyBag
    /\ out = Idle
    /\ reqs = 0
    /\ handed = << >>
    /\ loggedOut = {}
    /\ bulkRevoked = {}
    /\ silent = FALSE
    /\ crypto \in { [NoCall EXCEPT !.p1 = a, !.p2 = b] :
                       a \in CryptoPasswords, b \in CryptoPasswords }
    /\ scope = NoScopes
    /\ dto = NoRequest

\* encrypt_password(p): gensalt, hashpw.
call_encrypt(p) ==
    /\ Len(crypto.hashes) < MaxHashes
    /\ \E salt \in gensalt({ crypto.hashes[i].hash.salt : i \in DOMAIN crypto.hashes }) :
         crypto' = [crypto EXCEPT
                      !.op = "encrypt",
                      !.hashes = Append(@, [password |-> p,
                                            hash |-> encrypt_password(p, salt)])]
    /\ UNCHANGED <<users, nextId, store, now, req, out, reqs, handed, loggedOut,
                   bulkRevoked, silent, scope, dto>>

\* verify_password(p, h.hash): the value returned, or the exception.
call_verify(p, h) ==
    /\ crypto' = [crypto EXCEPT
                    !.op = "verify",
                    !.plain = p,
                    !.hashed = h.hash,
                    !.origin = h.password,
                    !.raised = checkpw_raises(h.hash),
                    !.result = ~checkpw_raises(h.hash) /\ verify_password(p, h.hash),
                    !.answer = NoResp]
    /\ UNCHANGED <<users, nextId, store, now, req, out, reqs, handed, loggedOut,
                   bulkRevoked, silent, scope, dto>>

\* The credential check of login_account and delete_account on a row
\* whose password_hash is h.hash.
call_credentials(p, h) ==
    /\ crypto' = [crypto EXCEPT
                    !.op = "credentials",
                    !.plain = p,
                    !.hashed = h.hash,
                    !.origin = h.password,
                    !.raised = checkpw_raises(h.hash),
                    !.result = ~checkpw_raises(h.hash) /\ verify_password(p, h.hash),
                    !.answer = credentials_response(
                                  [NoUser EXCEPT !.id = 1, !.login = "alice",
                                                  !.password_hash = h.hash], p)]
    /\ UNCHANGED <<users, nextId, store, now, req, out, reqs, handed, loggedOut,
                   bulkRevoked, silent, scope, dto>>

CryptoNext ==
    \/ \E p \in {crypto.p1, crypto.p2} : call_encrypt(p)
    \/ \E p \in {crypto.p1, crypto.p2} : \E h \in Candidates(p) : call_verify(p, h)
    \/ \E p \in {crypto.p1, crypto.p2} : \E h \in Candidates(p) : call_credentials(p, h)

CryptoSpec == CryptoInit /\ [][CryptoNext]_vars

\* ------------------------------------------ the scopes of the two DAOs
MaxScopes == 2
MaxStatements == 2

\* No route at work.
Quiet ==
    /\ users = {}
    /\ nextId = 1
    /\ store = << >>
    /\ now = 0
    /\ req = EmptyBag
    /\ out = Idle
    /\ reqs = 0
    /\ handed = << >>
    /\ loggedOut = {}
    /\ bulkRevoked = {}
    /\ silent = FALSE
    /\ crypto = NoCall

ScopeInit ==
    /\ Quiet
    /\ scope = NoScopes
    /\ dto = NoRequest

\* The with statement is left: the scope s is over.
Leave(s) ==
    [at |-> NoScope, left |-> Append(scope.left, [s EXCEPT !.pc = "left"])]

CanEnter ==
    /\ scope.at.pc = "out"
    /\ Len(scope.left) < MaxScopes

\* UsersDAO.__enter__: get_db_connection(), which raises when the server
\* cannot be reached, then conn.cursor(), which opens the transaction.
UsersDAO_enter ==
    /\ CanEnter
    /\ \E connected \in BOOLEAN :
         scope' = IF connected
                  THEN [scope EXCEPT !.at = [NoScope EXCEPT
                                               !.dao = "users", !.pc = "body",
                                               !.conn = "open", !.cur = "open",
                                               !.tx = "open"]]
                  ELSE Leave([NoScope EXCEPT !.dao = "users", !.raised = TRUE])
    /\ UNCHANGED <<users, nextId, store, now, req, out, reqs, handed, loggedOut,
                   bulkRevoked, silent, crypto, dto>>

\* TokensDAO.__enter__: get_redis_connection() builds the client.
TokensDAO_enter ==
    /\ CanEnter
    /\ scope' = [scope EXCEPT !.at = [NoScope EXCEPT
                                        !.dao = "tokens", !.pc = "body",
                                        !.conn = "open"]]
    /\ UNCHANGED <<users, nextId, store, now, req, out, reqs, handed, loggedOut,
                   bulkRevoked, silent, crypto, dto>>

\* A statement of the body of the with: it goes through, or an exception
\* leaves the body.
Body_statement ==
    /\ scope.at.pc = "body"
    /\ scope.at.statements < MaxStatements
    /\ \E ok \in BOOLEAN :
         scope' = IF ok THEN [scope EXCEPT !.at.statements = @ + 1]
                  ELSE [scope EXCEPT !.at.pc = "exit", !.at.raised = TRUE]
    /\ UNCHANGED <<users, nextId, store, now, req, out, reqs, handed, loggedOut,
                   bulkRevoked, silent, crypto, dto>>

\* The body comes to its end or returns.
Body_return ==
    /\ scope.at.pc = "body"
    /\ scope' = [scope EXCEPT !.at.pc = "exit"]
    /\ UNCHANGED <<users, nextId, store, now, req, out, reqs, handed, loggedOut,
                   bulkRevoked, silent, crypto, dto>>

\* UsersDAO.__exit__: cur.close(); commit() when the body raised nothing,
\* else rollback(); conn.close().  commit and rollback raise when the
\* server or the connection fails (ok = FALSE), and the statement after
\* them is not reached.
UsersDAO_exit ==
    /\ scope.at.pc = "exit"
    /\ scope.at.dao = "users"
    /\ \E ok \in BOOLEAN :
         scope' = Leave(IF ok
                        THEN [scope.at EXCEPT
                                !.cur = "closed",
                                !.tx = IF scope.at.raised THEN "rolled_back"
                                       ELSE "committed",
                                !.conn = "closed"]
                        ELSE [scope.at EXCEPT
                                !.cur = "closed",
                                !.tx = "failed",
                                !.exit_raised = TRUE])
    /\ UNCHANGED <<users, nextId, store, now, req, out, reqs, handed, loggedOut,
                   bulkRevoked, silent, crypto, dto>>

\* TokensDAO.__exit__: redis_conn.close().
TokensDAO_exit ==
    /\ scope.at.pc = "exit"
    /\ scope.at.dao = "tokens"
    /\ scope' = Leave([scope.at EXCEPT !.conn = "closed"])
    /\ UNCHANGED <<users, nextId, store, now, req, out, reqs, handed, loggedOut,
                   bulkRevoked, silent, crypto, dto>>

ScopeNext ==
    \/ UsersDAO_enter
    \/ TokensDAO_enter
    \/ Body_statement
    \/ Body_return
    \/ UsersDAO_exit
    \/ TokensDAO_exit

ScopeSpec == ScopeInit /\ [][ScopeNext]_vars

\* ------------------------------------------------------------ dto/api.py
\* Logins and passwords are Python strings, here the tuples of their code
\* points; len() counts code points.
MaxSuffix == 3

\* "!" n times.
Fill(n) == [i \in 1..n |-> 33]

\* "A", "a", "1", and from other scripts CYRILLIC CAPITAL LETTER PE, CYRILLIC
\* SMALL LETTER PE and ARABIC-INDIC DIGIT THREE.
Alphabet == {65, 97, 49, 1055, 1087, 1635}

Suffixes == UNION { [1..n -> Alphabet] : n \in 0..MaxSuffix }

DtoPasswords == { Fill(k) \o x : k \in {0, 4, 5}, x \in Suffixes }

DtoLogins == { Fill(k) : k \in {0, 2, 3} } \cup {<<32, 32, 32>>}

Routes == {"register", "login", "delete"}

\* re.search(r'[A-Z]', v), re.search(r'[a-z]', v)
re_search(class, v) == \E i \in DOMAIN v : v[i] \in class

\* [A-Z] and [a-z]
A_Z == 65..90
a_z == 97..122

\* \d on a str pattern: the decimal digits of every script (here ASCII and
\* ARABIC-INDIC).
decimal_digit == (48..57) \cup (1632..1641)

\* AuthRequestDTO.validate_login: the message of the ValueError, or "".
validate_login(v) ==
    IF Len(v) = 0 \/ Len(v) < 3 THEN "Login must be at least 3 characters long"
    ELSE ""

\* A validate_password that looks for the lowercase letter first.
validate_password_lowercase_first(v) ==
    IF Len(v) = 0 \/ Len(v) < 8 THEN "Password must be at least 8 characters long"
    ELSE IF ~re_search(a_z, v)
    THEN "Password must contain at least one lowercase letter"
    ELSE IF ~re_search(A_Z, v)
    THEN "Password must contain at least one uppercase letter"
    ELSE IF ~re_search(decimal_digit, v) THEN "Password must contain at least one digit"
    ELSE ""

\* AuthRequestDTO.validate_password: the message of the ValueError, or "".
validate_password(v) ==
    IF Len(v) = 0 \/ Len(v) < 8 THEN "Password must be at least 8 characters long"
    ELSE IF ~re_search(A_Z, v)
    THEN "Password must contain at least one uppercase letter"
    ELSE IF ~re_search(a_z, v)
    THEN "Password must contain at least one lowercase letter"
    ELSE IF ~re_search(decimal_digit, v) THEN "Password must contain at least one digit"
    ELSE ""

DtoInit ==
    /\ Quiet
    /\ scope = NoScopes
    /\ dto \in { [NoRequest EXCEPT !.op = o, !.pc = "received",
                                    !.login = l, !.password = p] :
                    o \in Routes, l \in DtoLogins, p \in DtoPasswords }

\* The body of a POST to /register, /login or /delete is made an
\* AuthRequestDTO: both field validators run; with an error the request
\* is answered 422 and the route function is not called, without one the
\* route function is called with the DTO.
validate_request ==
    /\ dto.pc = "received"
    /\ LET le == validate_login(dto.login)
           pe == validate_password(dto.password)
           valid == le = "" /\ pe = ""
       IN  dto' = [dto EXCEPT !.pc = "answered",
                              !.login_error = le,
                              !.password_error = pe,
                              !.status = IF valid THEN 0 ELSE 422,
                              !.dispatched = valid]
    /\ UNCHANGED <<users, nextId, store, now, req, out, reqs, handed, loggedOut,
                   bulkRevoked, silent, crypto, scope>>

DtoNext == validate_request

DtoSpec == DtoInit /\ [][DtoNext]_vars

\* ================================================================ claims
LoginAnswered == out.op = "login" /\ out.resp.status = 200
AuthAnswered == out.op = "auth" /\ out.pc = "done"
Known == (DOMAIN handed) \cup loggedOut \cup bulkRevoked

\* C1: get_current_user answers with an identity only if the signature
\* verifies, the signed expiry had not passed when it was checked and a
\* store record of that token exists and is unexpired at the lookup; every
\* other answer is a 401 that carries no identity.
C1_IdentityOnlyIfAllThree ==
    AuthAnswered =>
      /\ out.resp.status \in {200, 401}
      /\ out.resp.status = 200 =>
            /\ out.resp.kind = "identity"
            /\ out.token.sig = "server"
            /\ out.decoded_at < out.token.exp
            /\ out.token \in DOMAIN store
            /\ now < store[out.token].expires_at
      /\ out.resp.status = 401 =>
            /\ out.resp.kind = "detail"
            /\ out.resp.id = 0
            /\ out.resp.login = ""

C1_Witness ==
    /\ AuthAnswered
    /\ out.resp.status = 200
    /\ out.resp.id = out.token.user_id

\* C2: a login answered 200 with a token had its store write succeed.
C2_TokenOnlyIfStored == LoginAnswered => out.stored

\* C3: no store record carries the id of an account that is gone, i.e.
\* once delete_account has answered 200 no token of the user is left.
C3_NoTokenOutlivesAccount ==
    \A t \in DOMAIN store : \E u \in users : u.id = store[t].user_id

\* C4: a token whose logout answered 200 does not validate afterwards.
C4_LoggedOutStaysInvalid == \A t \in loggedOut : ~Validates(t)

\* C5: a login answered 200 returns a token no earlier login returned, and
\* its store write replaces no record.
C5_FreshTokenPerLogin ==
    [][(out'.op = "login" /\ out'.resp.status = 200)
          => /\ out'.token \notin DOMAIN handed
             /\ out'.token \notin DOMAIN store]_vars

\* C6: Expired and Revoked are terminal: a token that was revoked (logout
\* or bulk revocation) or has expired, and does not validate, does not
\* validate in the next state either.
Expired(t) == t.sig = "server" /\ t.exp <= now

C6_DeadStaysDead ==
    [][\A t \in Known :
          ((t \in loggedOut \cup bulkRevoked \/ Expired(t)) /\ ~Validates(t))
          => ~Validates(t)']_vars

\* C7: login and delete_account answer an unknown login and a wrong
\* password alike: 401 {"message": "Invalid credentials"}, for the request
\* just answered and for any two rejected requests against this table.
Rejects(login, password) ==
    credentials_response(get_user_by_login(login), password) # NoResp

C8_ValidThenExpired ==
    /\ (LoginAnswered /\ now < out.token.exp
          /\ out.token \notin loggedOut \cup bulkRevoked)
       => Validates(out.token)
    /\ \A t \in DOMAIN handed :
          /\ t.exp <= now => ~Validates(t)
          /\ t \notin DOMAIN store => ~Validates(t)

\* C9: the store is consulted only for a token that passed the signature,
\* expiry and payload checks; a token failing one of them is answered 401
\* without a lookup.
PassesLocal(token, t) ==
    /\ token.sig = "server"
    /\ t < token.exp
    /\ token.user_id # 0
    /\ token.sub # ""

C9_LocalChecksFirst ==
    /\ \A r \in InFlight :
          r.pc = "auth_store" => PassesLocal(r.token, r.decoded_at)
    /\ AuthAnswered =>
          /\ out.lookup => PassesLocal(out.token, out.decoded_at)
          /\ ~PassesLocal(out.token, out.decoded_at)
                => (~out.lookup /\ out.resp.status = 401)

C9_Witness ==
    /\ AuthAnswered
    /\ out.token.sig = "server"
    /\ out.token.exp <= out.decoded_at
    /\ ~out.lookup
    /\ out.resp.msg = "Token has expired"

\* C10: when revoke_user_tokens(uid) has returned and no token of uid was
\* stored meanwhile, the store holds no record of uid.
C10_RevokeLeavesNone ==
    \A r \in InFlight :
       (r.pc = "delete_user" /\ ~r.raced) => get_user_tokens(r.user.id) = {}

\* The step is one of the request r.
Acts(r) == r \in InFlight /\ CopiesIn(r, req') < CopiesIn(r, req)

Revoking(r) == r.pc \in {"revoke_keys", "revoke_get", "revoke_del"}

\* C11: no step of revoke_user_tokens(uid) removes or changes a store
\* record whose user_id is not uid.
C11_RevokeLeavesOthers ==
    [][\A r \in InFlight :
          (Revoking(r) /\ Acts(r)) =>
             \A t \in DOMAIN store :
                store[t].user_id # r.user.id
                => t \in DOMAIN store' /\ store'[t] = store[t]]_vars

C11_Witness ==
    \E r \in InFlight :
       /\ r.pc = "delete_user"
       /\ r.revoked_for = r.user.id
       /\ \E t \in DOMAIN store : store[t].user_id # r.user.id /\ Validates(t)

\* C12: a step of revoke_user_tokens(uid) removes no record written behind
\* its key scan, and when it returns every record of uid left in the store
\* was written behind the scan.
C12_RevokeAndLateLogin ==
    [][/\ \A r \in InFlight :
            (r.pc = "revoke_del" /\ Acts(r)
               /\ r.key \in DOMAIN store /\ r.key \notin DOMAIN store')
            => r.key \notin r.late
       /\ \A n \in BagToSet(req') :
            n.pc = "delete_user"
            => { t \in DOMAIN store' : store'[t].user_id = n.user.id } \subseteq n.late]_vars

\* C13: a row leaves the user table only in the delete_user step of a
\* delete_account that has called revoke_user_tokens for that id.
C13_RevokeBeforeDelete ==
    [][\A u \in { v \in users : \A w \in users' : w.id # v.id } :
          \E r \in InFlight :
             /\ r.op = "delete"
             /\ r.pc = "delete_user"
             /\ Acts(r)
             /\ r.user.id = u.id
             /\ r.revoked_for = u.id]_vars

C13_Witness ==
    /\ out.op = "delete"
    /\ out.resp.status = 200
    /\ out.revoked_for = out.user.id
    /\ \A u \in users : u.id # out.user.id

LogoutAnswered == out.op = "logout" /\ out.pc = "done"

\* C14: logout_account answers success whether or not a record of the
\* token existed.
C14_LogoutNeverFails == LogoutAnswered => out.resp.status = 200

\* C15: logout_account answers 200 "Successfully logged out" when
\* delete_token returned True and 400 "Failed to logout token" when it
\* returned False.
C15_LogoutAnswer ==
    LogoutAnswered =>
       /\ out.success
          => out.resp = Resp(200, "message", "Successfully logged out")
       /\ ~out.success
          => out.resp = Resp(400, "detail", "Failed to logout token")

C15_Witness ==
    /\ LogoutAnswered
    /\ ~out.success
    /\ out.resp.status = 400

\* C16: the token of a login answered 200 validates right after the
\* answer, to the id and login of the user who logged in.
C16_LoginThenAuthenticate ==
    (LoginAnswered /\ now < out.token.exp) =>
       /\ Validates(out.token)
       /\ out.token.user_id = out.user.id
       /\ out.token.sub = out.user.login

\* C17: when the backend raises during the store lookup of
\* get_current_user, the answer is the 401 of an invalid token and
\* carries no identity.
C17_FailClosed ==
    (AuthAnswered /\ out.lookup /\ ~out.store_ok) =>
       out.resp = Resp(401, "detail", "Token not found or expired")

C17_Witness ==
    /\ AuthAnswered
    /\ out.lookup
    /\ ~out.store_ok
    /\ out.token \in DOMAIN store
    /\ now < store[out.token].expires_at
    /\ out.resp.status = 401

\* C18: store_token returns to its caller whether or not the write went
\* through; when it returns False the store is as it was, and when it
\* returns True the record is in the store.
C18_StoreTokenResult ==
    [][\A r \in InFlight :
          (r.pc = "login_store" /\ Acts(r)) =>
             /\ out'.op = "login"
             /\ out'.resp.status = 200
             /\ out'.stored
                => /\ r.token \in DOMAIN store'
                   /\ store'[r.token].user_id = r.user.id
                   /\ store'[r.token].created_at = out'.minted_at
             /\ ~out'.stored => store' = store]_vars

C18_Witness ==
    /\ LoginAnswered
    /\ ~out.stored
    /\ out.token \notin DOMAIN store

\* C19: delete_token returns True iff a record of the token existed and
\* this call removed it; otherwise it returns False and the store is as
\* it was.
C19_DeleteTokenReportsRemoval ==
    [][(out'.op = "logout" /\ out'.pc = "done") =>
          /\ out'.success
             <=> (out'.token \in DOMAIN store /\ out'.token \notin DOMAIN store')
          /\ out'.success => store' = Without(store, out'.token)
          /\ ~out'.success => store' = store
          /\ out'.token \notin DOMAIN store => ~out'.success]_vars

C19_Witness ==
    /\ LogoutAnswered
    /\ out.token \in loggedOut
    /\ out.store_ok
    /\ ~out.success
    /\ out.resp.status = 400

\* The step is a store_token of t that went through.
Wrote(t) == out'.op = "login" /\ out'.stored /\ out'.token = t

\* The step removes the record of t by DEL or by the end of its TTL.
Removed(t) ==
    \/ out'.op = "logout" /\ out'.success /\ out'.token = t
    \/ \E r \in InFlight : r.pc = "revoke_del" /\ Acts(r) /\ r.key = t
    \/ now' >= store[t].evict_at

\* C20: after a store_token that went through, get_token returns the
\* user_id, created_at and expires_at that were stored, unchanged until
\* the record is deleted or its TTL ends; without a record it returns
\* None.
C20_GetTokenVerbatim ==
    [][\A t \in (DOMAIN store) \cup (DOMAIN store') \cup Presentable :
          /\ Wrote(t)
             => get_token(t)' = {[user_id |-> out'.user.id,
                                  expires_at |-> out'.minted_at + StoreTtl,
                                  created_at |-> out'.minted_at]}
          /\ (~Wrote(t) /\ t \in DOMAIN store')
             => get_token(t)' = get_token(t) /\ get_token(t) # {}
          /\ (t \in DOMAIN store /\ t \notin DOMAIN store') => Removed(t)
          /\ t \notin DOMAIN store => get_token(t) = {}]_vars

C20_Witness ==
    /\ LoginAnswered
    /\ out.stored
    /\ get_token(out.token) = {[user_id |-> out.user.id,
                                expires_at |-> out.minted_at + StoreTtl,
                                created_at |-> out.minted_at]}

TokensAnswered == out.op = "tokens" /\ out.pc = "done"

\* C21: get_user_tokens(uid) returns one entry for every store record of
\* uid and none for another user, and every entry names its token and
\* carries user_id = uid.
C21_ListIsExact ==
    TokensAnswered =>
       /\ { e.token : e \in out.entries } = get_user_tokens(out.user.id)
       /\ \A e \in out.entries :
             "user_id" \in DOMAIN e /\ e.user_id = out.user.id

\* C22: when revoke_user_tokens returns, its count is the number of
\* records this call removed.
C22_CountIsRemoved ==
    \A r \in InFlight : r.pc = "delete_user" => r.count = r.removed

\* C23: the record of a token issued by login ends with the signed
\* expiry: exp = expires_at = end of the key's TTL, and expires_at -
\* created_at is the TTL in seconds.
C23_SameInstant ==
    \A t \in (DOMAIN store) \cap (DOMAIN handed) :
       /\ store[t].expires_at - store[t].created_at = StoreTtl
       /\ store[t].evict_at - store[t].created_at = JwtTtl
       /\ store[t].expires_at = t.exp
       /\ store[t].evict_at = t.exp

\* C24: every store record carries the user_id of the payload of the
\* token it is keyed by.
C24_OwnerAgrees == \A t \in DOMAIN store : store[t].user_id = t.user_id

C24_Witness ==
    \E t \in (DOMAIN store) \cap (DOMAIN handed) :
       /\ t.user_id # 0
       /\ store[t].user_id = t.user_id

\* C25: a register of a login that exists is answered with a failure and
\* leaves the table as it was, and no two rows have the same login.
C25_LoginUnique ==
    [][/\ (out'.op = "register" /\ out'.pc = "done" /\ login_taken(out'.login))
          => (out'.resp.status >= 400 /\ users' = users)
       /\ \A u \in users', v \in users' : u.login = v.login => u = v]_vars

C25_Witness ==
    /\ out.op = "register"
    /\ out.resp.status = 500
    /\ \E u \in users : u.login = out.login /\ u # out.user

AuthPending == \E r \in InFlight : r.pc = "auth_store"

\* C26: a validation that has reached its store lookup is answered.
C26_ValidationReturns == AuthPending ~> ~AuthPending

SameOrigin == crypto.origin = crypto.plain

C28_VerifyOtherHash ==
    (crypto.op = "verify" /\ well_formed(crypto.hashed) /\ ~SameOrigin)
       => ~crypto.result

\* C29: on a stored value that is no bcrypt hash, verify_password
\* returns False without raising and the credential check answers
\* "Invalid credentials".
C29_MalformedIsFalse ==
    (crypto.op \in {"verify", "credentials"} /\ ~well_formed(crypto.hashed))
       => /\ ~crypto.raised
          /\ ~crypto.result
          /\ crypto.op = "credentials" => crypto.answer = InvalidCredentials

\* C30: every password_hash in the user table is a bcrypt hash, made by
\* encrypt_password from the password submitted, not the password itself.
C30_HashNotPlaintext ==
    /\ \A u \in users : well_formed(u.password_hash)
    /\ (out.op = "register" /\ out.resp.status = 201)
          => /\ out.user.password_hash # [salt |-> 0, pw |-> out.password]
             /\ verify_password(out.password, out.user.password_hash)

C30_Witness ==
    /\ out.op = "register"
    /\ out.resp.status = 201
    /\ out.user \in users
    /\ verify_password(out.password, out.user.password_hash)

\* The credential check of the login or delete_account request r fails.
FailedCheck(r) ==
    /\ r.op \in {"login", "delete"}
    /\ \/ r.user = NoUser
       \/ ~verify_password(r.password, r.user.password_hash)

\* C32: a login or delete_account whose credential check fails is answered
\* in the step of the check and goes no further, and that step leaves the
\* user table (last_login included), the token store and the set of
\* revoked tokens as they were and hands out no token.
C32_FailedCheckChangesNothing ==
    [][/\ \A n \in BagToSet(req') : ~FailedCheck(n)
       /\ (out'.pc = "done" /\ FailedCheck(out'))
          => /\ users' = users
             /\ nextId' = nextId
             /\ store' = store
             /\ bulkRevoked' = bulkRevoked
             /\ handed' = handed
             /\ out'.resp.token = NoToken
             /\ out'.resp.status >= 400]_vars

C32_Witness ==
    /\ out.op \in {"login", "delete"}
    /\ out.pc = "done"
    /\ out.user # NoUser
    /\ ~verify_password(out.password, out.user.password_hash)
    /\ out.resp = InvalidCredentials
    /\ get_user_by_login(out.login).last_login # {}
    /\ get_user_tokens(out.user.id) # {}

\* C33: is_token_valid(t) is True iff get_token returned a record of t
\* and the time is before the record's expires_at; a record that is still
\* in the store at or after its expires_at is reported invalid.
C33_ValidIffUnexpiredRecord ==
    /\ \A t \in Presentable \cup (DOMAIN store) :
          is_token_valid(t, TRUE)
          <=> (t \in DOMAIN store /\ now < store[t].expires_at)
    /\ (AuthAnswered /\ out.lookup)
          => (out.resp.status = 200
                <=> /\ out.store_ok
                    /\ out.token \in DOMAIN store
                    /\ now < store[out.token].expires_at)

C33_Witness ==
    /\ AuthAnswered
    /\ out.lookup
    /\ out.store_ok
    /\ out.token \in DOMAIN store
    /\ now >= store[out.token].expires_at
    /\ out.resp = Resp(401, "detail", "Token not found or expired")

\* C34: when delete_user raises after the credential check and the
\* revocation, the step leaves the user table as it was (a row of the
\* account that was there is still there and passes the credential
\* check), restores no record to the store, and is answered 500.
C34_DeleteFailureRollsBack ==
    [][\A r \in InFlight :
          (r.pc = "delete_user" /\ Acts(r) /\ out'.op = "delete" /\ ~out'.deleted) =>
             /\ out'.resp.status = 500
             /\ users' = users
             /\ store' = store
             /\ bulkRevoked' = bulkRevoked
             /\ \A u \in users :
                   (u.id = r.user.id /\ u.login = r.login)
                   => /\ u \in users'
                      /\ credentials_response(u, r.password) = NoResp]_vars

C34_Witness ==
    /\ out.op = "delete"
    /\ out.pc = "done"
    /\ out.resp.status = 500
    /\ out.removed > 0
    /\ get_user_tokens(out.user.id) = {}
    /\ \E u \in users :
          /\ u.id = out.user.id
          /\ u.login = out.login
          /\ credentials_response(u, out.password) = NoResp

\* C35: a token that validates resolves to the account whose login minted
\* it: the profile get_profile returns for it, if any, is that of the
\* login in its payload.
C35_TokenResolvesToMinter ==
    /\ \A t \in DOMAIN handed :
          Validates(t) =>
             LET answer == profile_response(get_user_by_id(t.user_id))
             IN  answer.status = 200 => answer.profile.login = t.sub
    /\ (out.op = "profile" /\ out.resp.status = 200)
          => out.resp.profile.login = out.token.sub

\* C36: a scope that has been left has released its connection, and the
\* transaction of a UsersDAO scope was committed iff the body raised
\* nothing and rolled back otherwise.
C36_ScopeReleases ==
    \A i \in DOMAIN scope.left :
       LET s == scope.left[i] IN
       /\ s.conn # "open"
       /\ (s.dao = "users" /\ s.conn # "none")
             => /\ s.tx = "committed" <=> ~s.raised
                /\ s.tx = "rolled_back" <=> s.raised

ProfileAnswered == out.op = "profile" /\ out.pc = "done"

\* C37: a profile lookup whose token authenticated and whose user id has
\* no row is answered 404 "User not found".
C37_NoRowIsNotFound ==
    (ProfileAnswered /\ out.user = NoUser)
       => out.resp = Resp(404, "detail", "User not found")

C37_Witness ==
    /\ ProfileAnswered
    /\ out.lookup
    /\ out.store_ok
    /\ out.user = NoUser
    /\ out.resp.status = 404

\* C38: the profile returned has no password_hash field; it is the row
\* read, with its other columns as they are.
C38_ProfileWithoutHash ==
    (ProfileAnswered /\ out.resp.status = 200)
       => /\ "password_hash" \notin DOMAIN out.resp.profile
          /\ \A f \in (DOMAIN out.user) \ {"password_hash"} :
                f \in DOMAIN out.resp.profile /\ out.resp.profile[f] = out.user[f]

C38_Witness ==
    /\ ProfileAnswered
    /\ out.resp.status = 200
    /\ out.user \in users
    /\ well_formed(out.user.password_hash)
    /\ out.resp.profile.login = out.user.login

\* The letters and digits of the scripts in Alphabet.
UppercaseLetters == (65..90) \cup (1040..1071)
LowercaseLetters == (97..122) \cup (1072..1103)
Digits == (48..57) \cup (1632..1641)
LatinUppercase == 65..90
LatinLowercase == 97..122

Has(class, v) == \E i \in DOMAIN v : v[i] \in class

dispatched_to_route == dto.dispatched

\* The error of the first rule the password v fails, in the order length,
\* uppercase, lowercase, digit; "" when it fails none.
FirstFailing(v, upper, lower, digit) ==
    IF Len(v) < 8 THEN "Password must be at least 8 characters long"
    ELSE IF ~Has(upper, v) THEN "Password must contain at least one uppercase letter"
    ELSE IF ~Has(lower, v) THEN "Password must contain at least one lowercase letter"
    ELSE IF ~Has(digit, v) THEN "Password must contain at least one digit"
    ELSE ""

\* A request that has been through validation is accepted iff its login
\* has 3 characters or more and its password 8 or more with a letter of
\* upper, a letter of lower and a digit of digit; the password error is
\* that of the first failing rule; a request answered 422 is not handed
\* to its route function, which alone reaches the table and the store.
ValidationRules(upper, lower, digit) ==
    dto.pc = "answered" =>
       /\ dto.status # 422
          <=> /\ Len(dto.login) >= 3
              /\ Len(dto.password) >= 8
              /\ Has(upper, dto.password)
              /\ Has(lower, dto.password)
              /\ Has(digit, dto.password)
       /\ dto.password_error = FirstFailing(dto.password, upper, lower, digit)
       /\ dto.status = 422 => ~dispatched_to_route
       /\ dto.status # 422 => dispatched_to_route

\* C39, as stated: the rules of request validation, an uppercase letter,
\* a lowercase letter and a digit being those of any script.
C39_AcceptedIffRules == ValidationRules(UppercaseLetters, LowercaseLetters, Digits)

\* C39, amended: the rules of request validation, the uppercase letter
\* being one of A-Z and the lowercase letter one of a-z; the digit is a
\* decimal digit of any script.
C39_AcceptedIffLatinRules == ValidationRules(LatinUppercase, LatinLowercase, Digits)

C39_Witness ==
    /\ dto.pc = "answered"
    /\ Len(dto.login) >= 3
    /\ Len(dto.password) >= 8
    /\ Has(UppercaseLetters, dto.password)
    /\ ~Has(LatinUppercase, dto.password)
    /\ Has(LatinLowercase, dto.password)
    /\ Has(Digits, dto.password)
    /\ dto.status = 422
    /\ dto.password_error = "Password must contain at least one uppercase letter"
    /\ ~dto.dispatched

====
